---- MODULE Spec2Model ----
(***************************************************************************)
(* BackendServiceDataSource.Read of terraform-provider-gkegateway: the     *)
(* resolution of a Kubernetes gateway to the backend service of the load   *)
(* balancer GKE created for it (forwarding rule -> target HTTPS proxy ->   *)
(* URL map -> backend service).                                            *)
(*                                                                         *)
(* A Go string is a sequence of atoms (an atom is "/" , "\n" or a piece of *)
(* text holding neither), so that strings.Split, fmt.Sprintf and           *)
(* strconv.FormatUint are computed and not assumed.  types.String is NULL, *)
(* UNKNOWN or a string.  One Read call is followed from its entry to its   *)
(* return, one step per blocking client call.                              *)
(***************************************************************************)
EXTENDS Integers, Sequences, FiniteSets, TLC

\* ------------------------------------------------------------------ bounds
\* Forwarding rules one listing returns before iterator.Done.
MaxRules == 2
\* Size of a URL map: its present defaultServices, route actions, weighted
\* backend services, path matchers and route rules, counted together.
MaxMapSize == 4

\* ----------------------------------------------------------------- strings
NULL == <<"<null>">>
UNKNOWN == <<"<unknown>">>

RECURSIVE Concat(_)
\* fmt.Sprintf with %s verbs only: the pieces, concatenated.
Concat(parts) ==
    IF parts = <<>> THEN <<>> ELSE Head(parts) \o Concat(Tail(parts))

RECURSIVE SplitFrom(_, _, _)
SplitFrom(s, sep, cur) ==
    IF s = <<>> THEN <<cur>>
    ELSE IF Head(s) = sep THEN <<cur>> \o SplitFrom(Tail(s), sep, <<>>)
    ELSE SplitFrom(Tail(s), sep, Append(cur, Head(s)))

\* strings.Split(s, sep): always at least one component; "" gives [""].
Split(s, sep) == SplitFrom(s, sep, <<>>)

Last(seq) == seq[Len(seq)]

DigitAtom(d) ==
    CASE d = 0 -> "0" [] d = 1 -> "1" [] d = 2 -> "2" [] d = 3 -> "3"
      [] d = 4 -> "4" [] d = 5 -> "5" [] d = 6 -> "6" [] d = 7 -> "7"
      [] d = 8 -> "8" [] d = 9 -> "9" [] d = 10 -> "a" [] d = 11 -> "b"
      [] d = 12 -> "c" [] d = 13 -> "d" [] d = 14 -> "e" [] d = 15 -> "f"

RECURSIVE FormatUintBase(_, _)
FormatUintBase(n, base) ==
    IF n < base THEN <<DigitAtom(n)>>
    ELSE Append(FormatUintBase(n \div base, base), DigitAtom(n % base))

\* A slip: base 16.
FormatUintHex(n) == FormatUintBase(n, 16)

\* strconv.FormatUint(n, 10)
FormatUint10(n) == FormatUintBase(n, 10)

\* -------------------------------------------------- forwarding rule metadata
\* The request of this call (data.Namespace, data.Gateway: required strings).
ReqNamespace == <<"ns1">>
ReqGateway == <<"gw1">>

\* fmt.Sprintf("/namespaces/%s/gateways/%s", namespace, gateway)
CorrelationKey(ns, gw) ==
    Concat(<< <<"/", "namespaces", "/">>, ns, <<"/", "gateways", "/">>, gw >>)

\* A description as json.Unmarshal sees it: text that is no JSON at all
\* ("malformed", the empty description included), a JSON null, a JSON array,
\* or a JSON object with its members in written order.  A member's value is
\* a JSON string s, a JSON null or a JSON number.
Member(k, t, s) == [key |-> k, t |-> t, s |-> s]
Doc(kind, members) == [kind |-> kind, members |-> members]

ValExact == <<"/", "namespaces", "/", "ns1", "/", "gateways", "/", "gw1">>
ValPrefix == <<"/", "namespaces", "/", "ns1", "/", "gateways", "/">>
ValSuffix == <<"namespaces", "/", "ns1", "/", "gateways", "/", "gw1">>
ValCase == <<"/", "namespaces", "/", "NS1", "/", "gateways", "/", "gw1">>

Descriptions ==
    { Doc("malformed", <<>>),
      Doc("null", <<>>),
      Doc("array", <<>>),
      Doc("object", <<>>),
      Doc("object", <<Member("other", "string", ValExact)>>),
      Doc("object", <<Member("k8sResource", "string", ValExact)>>),
      Doc("object", <<Member("k8sResource", "string", ValPrefix)>>),
      Doc("object", <<Member("k8sResource", "string", ValSuffix)>>),
      Doc("object", <<Member("k8sResource", "string", ValCase)>>),
      Doc("object", <<Member("k8sResource", "null", <<>>)>>),
      Doc("object", <<Member("k8sResource", "number", <<>>)>>),
      Doc("object", <<Member("K8SRESOURCE", "string", ValExact)>>),
      Doc("object", <<Member("k8sResource", "string", ValExact),
                      Member("k8sResource", "string", ValPrefix)>>),
      Doc("object", <<Member("k8sResource", "string", ValExact),
                      Member("other", "number", <<>>)>>),
      Doc("object", <<Member("k8sResource", "number", <<>>),
                      Member("k8sResource", "string", ValExact)>>) }

\* Unicode simple case folding of an object key, on the keys that occur.
FoldKey(k) ==
    CASE k = "k8sResource" -> "k8sresource"
      [] k = "K8SRESOURCE" -> "k8sresource"
      [] OTHER -> k

\* encoding/json matches an object key to the struct field tagged
\* `json:"k8sResource"`: an exact match, or else a case-insensitive one.
FieldMatches(k) == k = "k8sResource" \/ FoldKey(k) = FoldKey("k8sResource")

RECURSIVE DecodeMembers(_, _)
\* The object decoder: members in order into frd; a later member for the same
\* field overwrites an earlier one; a JSON null sets the pointer to nil; a
\* value of another type allocates the pointer, records a type error and
\* decoding goes on; keys of no field are skipped.
DecodeMembers(members, frd) ==
    IF members = <<>> THEN frd
    ELSE LET m == Head(members)
             next ==
                 IF ~FieldMatches(m.key) THEN frd
                 ELSE CASE m.t = "string" -> [frd EXCEPT !.K8sResource = m.s]
                        [] m.t = "null" -> [frd EXCEPT !.K8sResource = NULL]
                        [] OTHER -> [err |-> TRUE, K8sResource |-> <<>>]
         IN DecodeMembers(Tail(members), [next EXCEPT !.err = frd.err \/ next.err])

\* json.Unmarshal([]byte(description), &frd) with frd a zero
\* forwardingRuleDescription: err is whether an error is returned.
Unmarshal(doc) ==
    CASE doc.kind = "malformed" -> [err |-> TRUE, K8sResource |-> NULL]
      [] doc.kind = "null" -> [err |-> FALSE, K8sResource |-> NULL]
      [] doc.kind = "array" -> [err |-> TRUE, K8sResource |-> NULL]
      [] OTHER -> DecodeMembers(doc.members, [err |-> FALSE, K8sResource |-> NULL])

\* A slip: the error of json.Unmarshal is dropped.
RuleMatchesIgnoringError(rule, ns, gw) ==
    LET frd == Unmarshal(rule.Description)
    IN  /\ frd.K8sResource # NULL
        /\ frd.K8sResource = CorrelationKey(ns, gw)

\* The condition of Read under which a listed rule is appended.
RuleMatches(rule, ns, gw) ==
    LET frd == Unmarshal(rule.Description)
    IN  /\ ~frd.err
        /\ frd.K8sResource # NULL
        /\ frd.K8sResource = CorrelationKey(ns, gw)

\* ------------------------------------------------------------ cloud resources
RuleNames == {<<"fr-a">>, <<"fr-b">>}
TargetHttps == <<"global", "/", "targetHttpsProxies", "/", "proxy-1">>
TargetTcp == <<"global", "/", "targetTcpProxies", "/", "p1">>
\* A rule without a target (GetTarget() returns "").
Targets == {TargetHttps, TargetTcp, <<>>}

ForwardingRules ==
    {[Name |-> n, Description |-> d, Target |-> t] :
        n \in RuleNames, d \in Descriptions, t \in Targets}

UrlMapRef == <<"global", "/", "urlMaps", "/", "um-1">>
Proxies == {[UrlMap |-> UrlMapRef]}

BackendServicePaths ==
    { <<"global", "/", "backendServices", "/", "svc-1">>,
      <<"global", "/", "backendServices", "/", "svc-2">> }

\* computepb.WeightedBackendService (its weight plays no part here).
WeightedBackendServices == {[BackendService |-> p] : p \in BackendServicePaths}

BackendServiceIds == {0, 10, 405}

\* A nil *HttpRouteAction.
NoAction ==
    [present |-> FALSE, FaultInjectionPolicy |-> FALSE, WeightedBackendServices |-> <<>>]

RECURSIVE SeqsOfLen(_, _)
SeqsOfLen(S, n) ==
    IF n = 0 THEN {<<>>}
    ELSE {Append(s, x) : s \in SeqsOfLen(S, n - 1), x \in S}

\* The values of each kind whose size is exactly k.
OptPathsOfSize(k) ==
    IF k = 0 THEN {NULL} ELSE IF k = 1 THEN BackendServicePaths ELSE {}

ActionsOfSize(k) ==
    IF k = 0 THEN {NoAction}
    ELSE {[present |-> TRUE, FaultInjectionPolicy |-> f, WeightedBackendServices |-> w] :
            f \in BOOLEAN, w \in SeqsOfLen(WeightedBackendServices, k - 1)}

RouteRulesOfSize(k) ==
    IF k = 0 THEN {} ELSE {[RouteAction |-> a] : a \in ActionsOfSize(k - 1)}

RECURSIVE RouteRuleListsOfSize(_)
RouteRuleListsOfSize(k) ==
    IF k = 0 THEN {<<>>}
    ELSE UNION {{<<r>> \o rest : r \in RouteRulesOfSize(j),
                                 rest \in RouteRuleListsOfSize(k - j)} : j \in 1..k}

PathMatchersOfSize(k) ==
    IF k = 0 THEN {}
    ELSE UNION {UNION {
            {[DefaultService |-> ds, DefaultRouteAction |-> dra, RouteRules |-> rr] :
                ds \in OptPathsOfSize(a), dra \in ActionsOfSize(b),
                rr \in RouteRuleListsOfSize(k - 1 - a - b)}
            : b \in 0..(k - 1 - a)} : a \in 0..(k - 1)}

RECURSIVE PathMatcherListsOfSize(_)
PathMatcherListsOfSize(k) ==
    IF k = 0 THEN {<<>>}
    ELSE UNION {{<<m>> \o rest : m \in PathMatchersOfSize(j),
                                 rest \in PathMatcherListsOfSize(k - j)} : j \in 1..k}

UrlMapsOfSize(k) ==
    UNION {UNION {
        {[DefaultService |-> ds, DefaultRouteAction |-> dra, PathMatchers |-> pm] :
            ds \in OptPathsOfSize(a), dra \in ActionsOfSize(b),
            pm \in PathMatcherListsOfSize(k - a - b)}
        : b \in 0..(k - a)} : a \in 0..k}

UrlMaps == UNION {UrlMapsOfSize(k) : k \in 0..MaxMapSize}

\* ------------------------------------------------------------------- state
VARIABLES
    pc,                       \* where Read is: Start, LocatingRule, ResolvingProxy,
                              \* ResolvingMap, ResolvingService, Done, Panic
    providerData,             \* d.providerData: project, region (types.String)
    data,                     \* the configuration read into the model
    calls,                    \* the client operations invoked so far, in order
    iterState,                \* forwardingRulesIterator: none, open, done, notfound, error
    fetched,                  \* rules the open iterator has returned so far
    forwardingRule,           \* the loop variable: the rule Next() returned last
    matchingForwardingRules,
    proxy,                    \* the TargetHttpsProxy fetched
    urlMap,                   \* the UrlMap fetched
    backendServicePaths,      \* the candidate paths extracted from urlMap
    backendService,           \* the BackendService fetched
    diagnostics,              \* resp.Diagnostics
    state                     \* resp.State

vars ==
    <<pc, providerData, data, calls, iterState, fetched, forwardingRule,
      matchingForwardingRules, proxy, urlMap, backendServicePaths, backendService,
      diagnostics, state>>

NoRule == [Name |-> NULL, Description |-> Doc("malformed", <<>>), Target |-> NULL]
NoProxy == [fetched |-> FALSE, UrlMap |-> NULL]
NoUrlMap ==
    [fetched |-> FALSE, DefaultService |-> NULL, DefaultRouteAction |-> NoAction,
     PathMatchers |-> <<>>]
NoBackendService == [fetched |-> FALSE, Id |-> 0, Name |-> NULL]
NoState == [written |-> FALSE, ID |-> NULL, Name |-> NULL]

Diagnostic(summary, detail) == [summary |-> summary, detail |-> detail]

\* resp.Diagnostics.AddError
AddError(summary, detail) == Append(diagnostics, Diagnostic(summary, detail))

\* fmt.Sprintf("Error calling Google API: %+v", err)
ApiErrorDetail == <<"Error calling Google API: ", "err">>

ProviderProjects == {NULL, <<"prov-project">>}
ProviderRegions == {NULL, <<"prov-region">>}
DataProjects == {NULL, UNKNOWN, <<"data-project">>}
DataRegions == {NULL, UNKNOWN, <<"data-region">>}

Init ==
    /\ pc = "Start"
    /\ providerData \in [project : ProviderProjects, region : ProviderRegions]
    /\ data \in [Project : DataProjects, Region : DataRegions,
                 Namespace : {ReqNamespace}, Gateway : {ReqGateway}]
    /\ calls = <<>>
    /\ iterState = "none"
    /\ fetched = 0
    /\ forwardingRule = NoRule
    /\ matchingForwardingRules = <<>>
    /\ proxy = NoProxy
    /\ urlMap = NoUrlMap
    /\ backendServicePaths = <<>>
    /\ backendService = NoBackendService
    /\ diagnostics = <<>>
    /\ state = NoState

\* ------------------------------------------------------------ project, region
\* A slip: the provider's project wins over the data source's.
EffectiveProjectProviderFirst ==
    IF providerData.project # NULL THEN providerData.project ELSE data.Project

\* project := d.providerData.project, unless the data source sets its own.
EffectiveProject ==
    IF data.Project # NULL THEN data.Project ELSE providerData.project

\* region := d.providerData.region, unless the data source sets its own.
EffectiveRegion ==
    IF data.Region # NULL THEN data.Region ELSE providerData.region

\* One invocation of a client of providerData.  region is NULL in the request
\* of a global client, which has no such field.
Call(client, region, name) ==
    [client |-> client, project |-> EffectiveProject, region |-> region, name |-> name]

ListCall ==
    IF EffectiveRegion = NULL
    THEN Call("globalForwardingRulesClient", NULL, <<>>)
    ELSE Call("forwardingRulesClient", EffectiveRegion, <<>>)

GetProxyCall(name) ==
    IF EffectiveRegion = NULL
    THEN Call("targetHttpsProxiesClient", NULL, name)
    ELSE Call("regionTargetHttpsProxiesClient", EffectiveRegion, name)

GetUrlMapCall(name) ==
    IF EffectiveRegion = NULL
    THEN Call("urlMapsClient", NULL, name)
    ELSE Call("regionUrlMapsClient", EffectiveRegion, name)

\* A slip: the global client whatever the region.
GetBackendServiceGlobalOnly(name) == Call("backendServicesClient", NULL, name)

GetBackendServiceCall(name) ==
    IF EffectiveRegion = NULL
    THEN Call("backendServicesClient", NULL, name)
    ELSE Call("regionBackendServicesClient", EffectiveRegion, name)

Return == pc' = "Done"

\* Read up to and including the List call, which opens the iterator without
\* fetching anything.
Start ==
    /\ pc = "Start"
    /\ UNCHANGED <<providerData, data, fetched, forwardingRule, matchingForwardingRules,
                   proxy, urlMap, backendServicePaths, backendService, state>>
    /\ IF providerData.project = NULL /\ data.Project = NULL
       THEN /\ diagnostics' = AddError(<<"Missing project">>,
                    <<"The project field must be set on either the provider or data source.">>)
            /\ Return
            /\ UNCHANGED <<calls, iterState>>
       ELSE IF data.Project = UNKNOWN
       THEN /\ diagnostics' = AddError(<<"Unknown project">>,
                    <<"The project field on the data source cannot be set to an unknown value">>)
            /\ Return
            /\ UNCHANGED <<calls, iterState>>
       ELSE IF data.Region = UNKNOWN
       THEN /\ diagnostics' = AddError(<<"Unknown region">>,
                    <<"The region field on the data source cannot be set to an unknown value">>)
            /\ Return
            /\ UNCHANGED <<calls, iterState>>
       ELSE /\ calls' = Append(calls, ListCall)
            /\ iterState' = "open"
            /\ pc' = "LocatingRule"
            /\ UNCHANGED diagnostics

\* ------------------------------------------------------------ the rule listing
RECURSIVE ListDistinctLabels(_, _, _)
ListDistinctLabels(debugMessage, labels, seen) ==
    IF labels = <<>> THEN debugMessage
    ELSE IF Head(labels) \in seen THEN ListDistinctLabels(debugMessage, Tail(labels), seen)
    ELSE ListDistinctLabels(Concat(<<debugMessage, <<"  - ">>, Head(labels), <<"\n">>>>),
                            Tail(labels), seen \cup {Head(labels)})

\* A slip: a label already listed is not listed again.
ListLabelsOnce(debugMessage, labels) == ListDistinctLabels(debugMessage, labels, {})

RECURSIVE ListLabels(_, _)
\* for each label: debugMessage = fmt.Sprintf("%s  - %s\n", debugMessage, label)
ListLabels(debugMessage, labels) ==
    IF labels = <<>> THEN debugMessage
    ELSE ListLabels(Concat(<<debugMessage, <<"  - ">>, Head(labels), <<"\n">>>>),
                    Tail(labels))

RuleNamesOf(rules) == [i \in 1..Len(rules) |-> rules[i].Name]

\* A slip: every kind of target proxy is taken for an HTTPS proxy.
SupportedKindAnyProxy(kind) == kind \in {<<"targetHttpsProxies">>, <<"targetTcpProxies">>}

SupportedKind(kind) == kind = <<"targetHttpsProxies">>

\* Next() returns a rule: it is appended when its description carries the key.
NextRule ==
    /\ pc = "LocatingRule"
    /\ fetched < MaxRules
    /\ \E rule \in ForwardingRules :
          /\ forwardingRule' = rule
          /\ matchingForwardingRules' =
                IF RuleMatches(rule, data.Namespace, data.Gateway)
                THEN Append(matchingForwardingRules, rule)
                ELSE matchingForwardingRules
    /\ fetched' = fetched + 1
    /\ UNCHANGED <<pc, providerData, data, calls, iterState, proxy, urlMap,
                   backendServicePaths, backendService, diagnostics, state>>

\* A slip: the 404 is reported like any other error.
NextNotFoundReported ==
    /\ pc = "LocatingRule"
    /\ iterState' = "notfound"
    /\ fetched' = 0
    /\ forwardingRule' = NoRule
    /\ diagnostics' = AddError(<<"Unable to iterate over forwarding rules">>, ApiErrorDetail)
    /\ Return
    /\ UNCHANGED <<providerData, data, calls, matchingForwardingRules, proxy, urlMap,
                   backendServicePaths, backendService, state>>

\* Next() returns an APIError whose HTTPCode() is 404.
NextNotFound ==
    /\ pc = "LocatingRule"
    /\ iterState' = "notfound"
    /\ fetched' = 0
    /\ forwardingRule' = NoRule
    /\ Return
    /\ UNCHANGED <<providerData, data, calls, matchingForwardingRules, proxy, urlMap,
                   backendServicePaths, backendService, diagnostics, state>>

\* Next() returns any other error.
NextError ==
    /\ pc = "LocatingRule"
    /\ iterState' = "error"
    /\ fetched' = 0
    /\ forwardingRule' = NoRule
    /\ diagnostics' = AddError(<<"Unable to iterate over forwarding rules">>, ApiErrorDetail)
    /\ Return
    /\ UNCHANGED <<providerData, data, calls, matchingForwardingRules, proxy, urlMap,
                   backendServicePaths, backendService, state>>

\* Next() returns iterator.Done: the loop ends, the matches are counted and
\* the target of the only match is looked at, up to the proxy's Get call.
NextDone ==
    /\ pc = "LocatingRule"
    /\ iterState' = "done"
    /\ fetched' = 0
    /\ forwardingRule' = NoRule
    /\ UNCHANGED <<providerData, data, matchingForwardingRules, proxy, urlMap,
                   backendServicePaths, backendService, state>>
    /\ IF Len(matchingForwardingRules) = 0
       THEN /\ Return
            /\ UNCHANGED <<calls, diagnostics>>
       ELSE IF Len(matchingForwardingRules) > 1
       THEN /\ diagnostics' = AddError(
                    <<"Multiple matching forwarding rules found">>,
                    ListLabels(<<"The following forwarding rules matched:", "\n", "\n">>,
                               RuleNamesOf(matchingForwardingRules)))
            /\ Return
            /\ UNCHANGED calls
       ELSE LET targetComponents == Split(matchingForwardingRules[1].Target, "/")
                n == Len(targetComponents)
            IN  IF n < 2
                THEN \* targetComponents[len(targetComponents)-2]: index out of range
                     /\ pc' = "Panic"
                     /\ UNCHANGED <<calls, diagnostics>>
                ELSE IF SupportedKind(targetComponents[n - 1])
                THEN /\ calls' = Append(calls, GetProxyCall(targetComponents[n]))
                     /\ pc' = "ResolvingProxy"
                     /\ UNCHANGED diagnostics
                ELSE /\ diagnostics' = AddError(
                            <<"Unsupported target type for forwarding rule">>,
                            Concat(<< <<"The ">>, matchingForwardingRules[1].Name,
                                      <<" forwarding rule has a target with a type of ">>,
                                      targetComponents[n - 1],
                                      <<" which is currently unsupported by this provider.">> >>))
                     /\ Return
                     /\ UNCHANGED calls

\* ------------------------------------------------------------------ the proxy
\* A slip: a failed Get is tried again.
ProxyErrorRetried ==
    /\ pc = "ResolvingProxy"
    /\ Len(calls) < 4
    /\ calls' = Append(calls, Last(calls))
    /\ UNCHANGED <<pc, providerData, data, iterState, fetched, forwardingRule,
                   matchingForwardingRules, proxy, urlMap, backendServicePaths,
                   backendService, diagnostics, state>>

\* targetHttpsProxiesClient.Get fails.
ProxyError ==
    /\ pc = "ResolvingProxy"
    /\ diagnostics' = AddError(
            Concat(<< <<"Error looking up HTTPS target proxy ">>, Last(calls).name >>),
            ApiErrorDetail)
    /\ Return
    /\ UNCHANGED <<providerData, data, calls, iterState, fetched, forwardingRule,
                   matchingForwardingRules, proxy, urlMap, backendServicePaths,
                   backendService, state>>

\* The proxy is returned; its URL map is asked for.
ProxyFetched ==
    /\ pc = "ResolvingProxy"
    /\ \E p \in Proxies :
          LET urlMapComponents == Split(p.UrlMap, "/")
          IN  /\ proxy' = [fetched |-> TRUE, UrlMap |-> p.UrlMap]
              /\ calls' = Append(calls, GetUrlMapCall(Last(urlMapComponents)))
    /\ pc' = "ResolvingMap"
    /\ UNCHANGED <<providerData, data, iterState, fetched, forwardingRule,
                   matchingForwardingRules, urlMap, backendServicePaths, backendService,
                   diagnostics, state>>

\* ---------------------------------------------------------------- the URL map
RECURSIVE RuleActions(_)
\* for _, rule := range matcher.RouteRules: routeActions += rule.RouteAction
RuleActions(rules) ==
    IF rules = <<>> THEN <<>>
    ELSE <<Head(rules).RouteAction>> \o RuleActions(Tail(rules))

RECURSIVE WalkMatchers(_, _)
\* The loop over urlMap.PathMatchers, from acc = the paths and route actions
\* collected before it.
WalkMatchers(matchers, acc) ==
    IF matchers = <<>> THEN acc
    ELSE LET matcher == Head(matchers)
             withAction == Append(acc.routeActions, matcher.DefaultRouteAction)
             withService ==
                 IF matcher.DefaultService # NULL
                 THEN Append(acc.paths, matcher.DefaultService)
                 ELSE acc.paths
         IN WalkMatchers(Tail(matchers),
                [paths |-> withService,
                 routeActions |-> withAction \o RuleActions(matcher.RouteRules)])

RECURSIVE WeightedPaths(_)
WeightedPaths(wbs) ==
    IF wbs = <<>> THEN <<>>
    ELSE <<Head(wbs).BackendService>> \o WeightedPaths(Tail(wbs))

\* A slip: the fault-injection policy is not looked at.
SkipActionNilOnly(action) == ~action.present

\* if action == nil || action.FaultInjectionPolicy != nil { continue }
SkipAction(action) == ~action.present \/ action.FaultInjectionPolicy

RECURSIVE WalkActions(_, _)
\* The loop over routeActions.
WalkActions(routeActions, paths) ==
    IF routeActions = <<>> THEN paths
    ELSE WalkActions(Tail(routeActions),
            IF SkipAction(Head(routeActions)) THEN paths
            ELSE paths \o WeightedPaths(Head(routeActions).WeightedBackendServices))

\* A slip: the weighted backend services are put before the defaultServices.
ExtractWeightedFirst(um) ==
    LET start ==
            [paths |-> IF um.DefaultService # NULL THEN <<um.DefaultService>> ELSE <<>>,
             routeActions |-> <<um.DefaultRouteAction>>]
        walked == WalkMatchers(um.PathMatchers, start)
    IN  WalkActions(walked.routeActions, <<>>) \o walked.paths

\* backendServicePaths as Read builds it from the fetched URL map.
ExtractBackendServicePaths(um) ==
    LET start ==
            [paths |-> IF um.DefaultService # NULL THEN <<um.DefaultService>> ELSE <<>>,
             routeActions |-> <<um.DefaultRouteAction>>]
        walked == WalkMatchers(um.PathMatchers, start)
    IN  WalkActions(walked.routeActions, walked.paths)

TrailingSegments(paths) == [i \in 1..Len(paths) |-> Last(Split(paths[i], "/"))]

\* urlMapsClient.Get fails.
UrlMapError ==
    /\ pc = "ResolvingMap"
    /\ diagnostics' = AddError(
            Concat(<< <<"Error looking up URL map ">>, Last(calls).name >>), ApiErrorDetail)
    /\ Return
    /\ UNCHANGED <<providerData, data, calls, iterState, fetched, forwardingRule,
                   matchingForwardingRules, proxy, urlMap, backendServicePaths,
                   backendService, state>>

\* The URL map is returned: its candidates are extracted and counted, and the
\* only candidate is asked for.
UrlMapFetched ==
    /\ pc = "ResolvingMap"
    /\ \E um \in UrlMaps :
          LET paths == ExtractBackendServicePaths(um)
          IN  /\ urlMap' = [fetched |-> TRUE, DefaultService |-> um.DefaultService,
                            DefaultRouteAction |-> um.DefaultRouteAction,
                            PathMatchers |-> um.PathMatchers]
              /\ backendServicePaths' = paths
              /\ IF Len(paths) = 0
                 THEN /\ diagnostics' = AddError(<<"No backend services found">>, <<>>)
                      /\ Return
                      /\ UNCHANGED calls
                 ELSE IF Len(paths) > 1
                 THEN /\ diagnostics' = AddError(
                              <<"Multiple backend services found">>,
                              ListLabels(<<"The following backend services matched:", "\n", "\n">>,
                                         TrailingSegments(paths)))
                      /\ Return
                      /\ UNCHANGED calls
                 ELSE /\ calls' = Append(calls,
                              GetBackendServiceCall(Last(Split(paths[1], "/"))))
                      /\ pc' = "ResolvingService"
                      /\ UNCHANGED diagnostics
    /\ UNCHANGED <<providerData, data, iterState, fetched, forwardingRule,
                   matchingForwardingRules, proxy, backendService, state>>

\* -------------------------------------------------------- the backend service
\* A slip: no return after the error, so the nil service (id 0, name "") is saved.
BackendServiceErrorFallsThrough ==
    /\ pc = "ResolvingService"
    /\ diagnostics' = AddError(
            Concat(<< <<"Error looking up backend service ">>, Last(calls).name >>),
            ApiErrorDetail)
    /\ state' = [written |-> TRUE, ID |-> <<"0">>, Name |-> <<>>]
    /\ Return
    /\ UNCHANGED <<providerData, data, calls, iterState, fetched, forwardingRule,
                   matchingForwardingRules, proxy, urlMap, backendServicePaths,
                   backendService>>

\* backendServicesClient.Get fails.
BackendServiceError ==
    /\ pc = "ResolvingService"
    /\ diagnostics' = AddError(
            Concat(<< <<"Error looking up backend service ">>, Last(calls).name >>),
            ApiErrorDetail)
    /\ Return
    /\ UNCHANGED <<providerData, data, calls, iterState, fetched, forwardingRule,
                   matchingForwardingRules, proxy, urlMap, backendServicePaths,
                   backendService, state>>

\* ID: strconv.FormatUint(backendService.GetId(), 10), Name: GetName()
ResolvedBackendService(bs) ==
    [written |-> TRUE, ID |-> FormatUint10(bs.Id), Name |-> bs.Name]

\* The backend service is returned (under the name it was asked for) and
\* saved into the Terraform state.
BackendServiceFetched ==
    /\ pc = "ResolvingService"
    /\ \E id \in BackendServiceIds :
          LET bs == [fetched |-> TRUE, Id |-> id, Name |-> Last(calls).name]
          IN  /\ backendService' = bs
              /\ state' = ResolvedBackendService(bs)
    /\ Return
    /\ UNCHANGED <<providerData, data, calls, iterState, fetched, forwardingRule,
                   matchingForwardingRules, proxy, urlMap, backendServicePaths,
                   diagnostics>>

Next ==
    \/ Start
    \/ NextRule
    \/ NextNotFound
    \/ NextError
    \/ NextDone
    \/ ProxyError
    \/ ProxyFetched
    \/ UrlMapError
    \/ UrlMapFetched
    \/ BackendServiceError
    \/ BackendServiceFetched

Spec == Init /\ [][Next]_vars

\* ===================================================================== claims
RegionalClients ==
    {"forwardingRulesClient", "regionTargetHttpsProxiesClient", "regionUrlMapsClient",
     "regionBackendServicesClient"}

GlobalClients ==
    {"globalForwardingRulesClient", "targetHttpsProxiesClient", "urlMapsClient",
     "backendServicesClient"}

\* The resource kind a client reads.
ClientKind(client) ==
    CASE client \in {"forwardingRulesClient", "globalForwardingRulesClient"} -> "listForwardingRules"
      [] client \in {"targetHttpsProxiesClient", "regionTargetHttpsProxiesClient"} -> "getProxy"
      [] client \in {"urlMapsClient", "regionUrlMapsClient"} -> "getUrlMap"
      [] OTHER -> "getBackendService"

Pipeline == <<"listForwardingRules", "getProxy", "getUrlMap", "getBackendService">>

CallKinds == [i \in 1..Len(calls) |-> ClientKind(calls[i].client)]

HasCall(kind) == \E i \in 1..Len(calls) : ClientKind(calls[i].client) = kind

\* How the call ended, read off the response.
Outcome ==
    IF pc = "Panic" THEN "Panicked"
    ELSE IF pc # "Done" THEN "Running"
    ELSE IF diagnostics = <<>>
    THEN IF state.written THEN "Resolved" ELSE "NotFound"
    ELSE LET summary == diagnostics[1].summary
         IN CASE summary \in {<<"Missing project">>, <<"Unknown project">>,
                              <<"Unknown region">>} -> "InvalidConfig"
              [] summary \in {<<"Multiple matching forwarding rules found">>,
                              <<"Multiple backend services found">>} -> "Ambiguous"
              [] summary = <<"Unsupported target type for forwarding rule">> -> "Unsupported"
              [] summary = <<"No backend services found">> -> "NoBackendServices"
              [] OTHER -> "LookupFailed"

\* The last atom of a path that does not end in "/" is its trailing segment.
TrailingName(path) == <<path[Len(path)]>>

\* The second-to-last segment of a target of the form ".../kind/name"; "" for
\* a target of another form.
TargetKind(target) ==
    IF Len(target) >= 3 /\ target[Len(target)] # "/" /\ target[Len(target) - 1] = "/"
          /\ target[Len(target) - 2] # "/"
    THEN target[Len(target) - 2]
    ELSE ""

\* C1: exactly one rule matched, proxy and URL map were fetched and the
\* extractor yields no candidate path: Read ends as an empty success, with no
\* diagnostic, no resolved backend service and no backend-service lookup.
C1_EmptyExtractionIsEmptySuccess ==
    (urlMap.fetched /\ Len(matchingForwardingRules) = 1 /\ backendServicePaths = <<>>)
        => /\ pc = "Done"
           /\ diagnostics = <<>>
           /\ ~state.written
           /\ ~HasCall("getBackendService")

\* The region the claim C2 speaks of: the data source's if set, else the provider's.
C2_Region == IF data.Region # NULL THEN data.Region ELSE providerData.region

\* C2: within one Read the scope is fixed: with a region every client operation
\* invoked is the regional variant (asked for that region), without one every
\* operation invoked is the global variant.
C2_ScopeNeverMixed ==
    \A i \in 1..Len(calls) :
        IF C2_Region # NULL
        THEN calls[i].client \in RegionalClients /\ calls[i].region = C2_Region
        ELSE calls[i].client \in GlobalClients

\* All four lookups were made in the provider's region, the data source naming none.
C2_Witness ==
    /\ Len(calls) = 4
    /\ data.Region = NULL
    /\ providerData.region # NULL
    /\ \A i \in 1..4 : calls[i].client \in RegionalClients

\* C3: the lookups made are a prefix of list, get proxy, get URL map, get
\* backend service, each made once; a stage's lookup is made only when every
\* earlier stage produced its single result, and a call that returns after
\* fewer than four lookups ended in the outcome of the stage it stopped at.
C3_LookupsArePipelinePrefix ==
    /\ Len(calls) <= Len(Pipeline)
    /\ CallKinds = SubSeq(Pipeline, 1, Len(calls))
    /\ Len(calls) >= 2 => (iterState = "done" /\ Len(matchingForwardingRules) = 1)
    /\ Len(calls) >= 3 => proxy.fetched
    /\ Len(calls) >= 4 => (urlMap.fetched /\ Len(backendServicePaths) = 1)
    /\ proxy.fetched => Len(calls) >= 3
    /\ urlMap.fetched => Len(calls) >= 3
    /\ backendService.fetched => Len(calls) = 4
    /\ (pc = "Done" /\ Len(calls) = 1)
            => /\ Outcome \in {"NotFound", "Ambiguous", "Unsupported", "LookupFailed"}
               /\ ~proxy.fetched
    /\ (pc = "Done" /\ Len(calls) = 2) => (Outcome = "LookupFailed" /\ ~proxy.fetched)
    /\ (pc = "Done" /\ Len(calls) = 3)
            => /\ Outcome \in {"LookupFailed", "Ambiguous", "NoBackendServices"}
               /\ ~backendService.fetched
    /\ (pc = "Done" /\ Len(calls) = 4) => Outcome \in {"Resolved", "LookupFailed"}
    /\ Outcome \in {"NotFound", "Ambiguous", "Unsupported", "LookupFailed",
                    "NoBackendServices", "InvalidConfig"} => ~backendService.fetched

\* The proxy lookup failed: the call returned after the second lookup.
C3_Witness ==
    /\ pc = "Done"
    /\ Len(calls) = 2
    /\ Outcome = "LookupFailed"

RECURSIVE DecimalValue(_)
\* The number a string of decimal digits denotes; -1 if it is no such string.
DecimalValue(digits) ==
    IF digits = <<>> THEN 0
    ELSE LET d == Last(digits)
             v == CASE d = "0" -> 0 [] d = "1" -> 1 [] d = "2" -> 2 [] d = "3" -> 3
                    [] d = "4" -> 4 [] d = "5" -> 5 [] d = "6" -> 6 [] d = "7" -> 7
                    [] d = "8" -> 8 [] d = "9" -> 9 [] OTHER -> -1
             rest == DecimalValue(SubSeq(digits, 1, Len(digits) - 1))
         IN IF v < 0 \/ rest < 0 THEN -1 ELSE 10 * rest + v

C5_OneDiagnosticOrState ==
    /\ Len(diagnostics) <= 1
    /\ ~(diagnostics # <<>> /\ state.written)
    /\ state.written => (pc = "Done" /\ backendService.fetched)
    /\ (pc \in {"Done", "Panic"} /\ Outcome # "Resolved") => state = NoState
    /\ diagnostics # <<>> => pc = "Done"

\* The last lookup failed: one diagnostic, nothing written.
C5_Witness ==
    /\ pc = "Done"
    /\ Len(calls) = 4
    /\ Len(diagnostics) = 1
    /\ ~state.written

\* The lines a detail must consist of: the header, an empty line, one line
\* "  - label" per candidate in order, and nothing after the last newline.
ExpectedLines(header, labels) ==
    << <<header>>, <<>> >>
        \o [i \in 1..Len(labels) |-> <<"  - ">> \o labels[i]]
        \o << <<>> >>

\* C6: at both fan-outs two or more candidates end the call in an Ambiguous
\* failure whose detail lists the label of every candidate (rule name, trailing
\* path segment), one per line, in input order and without deduplication.
C6_AmbiguousListsEveryCandidate ==
    /\ (iterState = "done" /\ Len(matchingForwardingRules) >= 2)
          => /\ pc = "Done"
             /\ Len(diagnostics) = 1
             /\ diagnostics[1].summary = <<"Multiple matching forwarding rules found">>
             /\ Split(diagnostics[1].detail, "\n")
                   = ExpectedLines("The following forwarding rules matched:",
                        [i \in 1..Len(matchingForwardingRules) |->
                            matchingForwardingRules[i].Name])
             /\ Len(calls) = 1
    /\ (urlMap.fetched /\ Len(backendServicePaths) >= 2)
          => /\ pc = "Done"
             /\ Len(diagnostics) = 1
             /\ diagnostics[1].summary = <<"Multiple backend services found">>
             /\ Split(diagnostics[1].detail, "\n")
                   = ExpectedLines("The following backend services matched:",
                        [i \in 1..Len(backendServicePaths) |->
                            TrailingName(backendServicePaths[i])])
             /\ Len(calls) = 3
             /\ ~state.written

\* Two candidate paths that are the same path: Ambiguous, the label listed twice.
C6_Witness ==
    /\ pc = "Done"
    /\ Len(backendServicePaths) = 2
    /\ backendServicePaths[1] = backendServicePaths[2]
    /\ Outcome = "Ambiguous"
    /\ Split(diagnostics[1].detail, "\n")[3] = <<"  - ", "svc-1">>
    /\ Split(diagnostics[1].detail, "\n")[4] = <<"  - ", "svc-1">>

Contains(s, atom) == \E i \in 1..Len(s) : s[i] = atom

\* C7: the only matching rule's target has a second-to-last segment other than
\* targetHttpsProxies: Read ends in an Unsupported failure whose diagnostic
\* names the rule and the kind, and only the listing was looked up.
C7_OtherKindIsUnsupported ==
    (/\ iterState = "done"
     /\ Len(matchingForwardingRules) = 1
     /\ TargetKind(matchingForwardingRules[1].Target) \notin {"", "targetHttpsProxies"})
        => /\ pc = "Done"
           /\ Len(diagnostics) = 1
           /\ diagnostics[1].summary = <<"Unsupported target type for forwarding rule">>
           /\ Contains(diagnostics[1].detail, matchingForwardingRules[1].Name[1])
           /\ Contains(diagnostics[1].detail,
                       TargetKind(matchingForwardingRules[1].Target))
           /\ CallKinds = <<"listForwardingRules">>
           /\ ~proxy.fetched /\ ~urlMap.fetched /\ ~backendService.fetched
           /\ ~state.written

\* The rule fr-b targets a targetTcpProxies proxy.
C7_Witness ==
    /\ pc = "Done"
    /\ Len(matchingForwardingRules) = 1
    /\ matchingForwardingRules[1].Name = <<"fr-b">>
    /\ matchingForwardingRules[1].Target = TargetTcp
    /\ Outcome = "Unsupported"
    /\ Contains(diagnostics[1].detail, "targetTcpProxies")

\* Where a URL map holds route actions: the map's default, a path matcher's
\* default, a route rule.
ActionSites(um) ==
    {<<"map", 0, 0>>}
        \cup {<<"matcher", i, 0>> : i \in 1..Len(um.PathMatchers)}
        \cup UNION {{<<"rule", i, j>> : j \in 1..Len(um.PathMatchers[i].RouteRules)} :
                        i \in 1..Len(um.PathMatchers)}

ActionAt(um, site) ==
    CASE site[1] = "map" -> um.DefaultRouteAction
      [] site[1] = "matcher" -> um.PathMatchers[site[2]].DefaultRouteAction
      [] OTHER -> um.PathMatchers[site[2]].RouteRules[site[3]].RouteAction

\* The occurrences of path in the defaultService fields of a URL map.
DefaultOccurrences(um, path) ==
    (IF um.DefaultService = path THEN {0} ELSE {})
        \cup {i \in 1..Len(um.PathMatchers) : um.PathMatchers[i].DefaultService = path}

\* The occurrences of path in the weightedBackendServices of the route actions
\* at sites.
WeightedOccurrences(um, sites, path) ==
    UNION {{<<site, k>> : k \in {k \in 1..Len(ActionAt(um, site).WeightedBackendServices) :
                ActionAt(um, site).WeightedBackendServices[k].BackendService = path}} :
           site \in sites}

FaultInjectionSites(um) ==
    {site \in ActionSites(um) :
        ActionAt(um, site).present /\ ActionAt(um, site).FaultInjectionPolicy}

\* C8: a route action with a fault-injection policy contributes no candidate,
\* whatever its weightedBackendServices: each path is a candidate exactly as
\* often as it occurs as a defaultService or in the weightedBackendServices of
\* a present action without fault-injection policy.
C8_FaultInjectionContributesNothing ==
    urlMap.fetched =>
        \A path \in BackendServicePaths :
            Cardinality({i \in 1..Len(backendServicePaths) : backendServicePaths[i] = path})
                = Cardinality(DefaultOccurrences(urlMap, path))
                  + Cardinality(WeightedOccurrences(urlMap,
                        {site \in ActionSites(urlMap) \ FaultInjectionSites(urlMap) :
                            ActionAt(urlMap, site).present},
                        path))

\* A route rule's action with a fault-injection policy and a weighted backend
\* service, in a map with no other source of candidates: no candidate.
C8_Witness ==
    /\ urlMap.fetched
    /\ \E site \in FaultInjectionSites(urlMap) :
          /\ site[1] = "rule"
          /\ ActionAt(urlMap, site).WeightedBackendServices # <<>>
    /\ backendServicePaths = <<>>

\* C9: no rule matched in a listing read to its end, or the listing answered
\* 404 at some point: Read ends as an empty success, with no diagnostic, no
\* resolved backend service and no lookup but the listing.
C9_NoRuleIsEmptySuccess ==
    (\/ iterState = "notfound"
     \/ (iterState = "done" /\ matchingForwardingRules = <<>>))
        => /\ pc = "Done"
           /\ diagnostics = <<>>
           /\ state = NoState
           /\ CallKinds = <<"listForwardingRules">>
           /\ ~proxy.fetched /\ ~urlMap.fetched /\ ~backendService.fetched

\* The listing answered 404 after it had returned a matching rule.
C9_Witness ==
    /\ iterState = "notfound"
    /\ Len(matchingForwardingRules) = 1
    /\ pc = "Done"
    /\ diagnostics = <<>>

\* The key of this request, "/namespaces/{namespace}/gateways/{gateway}".
C10_Key == <<"/", "namespaces", "/">> \o data.Namespace \o <<"/", "gateways", "/">> \o data.Gateway

\* The members of an object that json.Unmarshal takes for the field: those
\* whose key is in keys.
C10_FieldMembers(doc, keys) == {i \in 1..Len(doc.members) : doc.members[i].key \in keys}

\* The description decodes without error, holds the correlation field under
\* one of keys, and the field's value (that of its last member) is a string
\* equal to the key of the request.
C10_Carries(doc, keys) ==
    /\ doc.kind = "object"
    /\ \A i \in C10_FieldMembers(doc, {"k8sResource", "K8SRESOURCE"}) :
            doc.members[i].t \in {"string", "null"}
    /\ C10_FieldMembers(doc, keys) # {}
    /\ LET last == CHOOSE i \in C10_FieldMembers(doc, keys) :
                        \A j \in C10_FieldMembers(doc, keys) : j <= i
       IN  /\ doc.members[last].t = "string"
           /\ doc.members[last].s = C10_Key

\* What a step of the listing that returns a rule does, if the rule is to
\* match exactly when its description carries the key under one of keys.
C10_Step(keys) ==
    (pc = "LocatingRule" /\ fetched' = fetched + 1)
        => /\ pc' = "LocatingRule"
           /\ diagnostics' = diagnostics
           /\ matchingForwardingRules' =
                 IF C10_Carries(forwardingRule'.Description, keys)
                 THEN Append(matchingForwardingRules, forwardingRule')
                 ELSE matchingForwardingRules

\* C10 as stated: a rule is added iff its description decodes, contains the
\* field k8sResource and that field's value equals the key exactly; any other
\* description is a non-match without diagnostic that lets the listing go on.
C10_MatchIffFieldNamedExactly == [][C10_Step({"k8sResource"})]_vars

\* C10 as amended: the field is found under any key that equals k8sResource
\* ignoring letter case; for the rest as stated.
C10_MatchIffFieldNamedIgnoringCase == [][C10_Step({"k8sResource", "K8SRESOURCE"})]_vars

\* A rule whose field is keyed K8SRESOURCE was added, and after it a rule whose
\* value differs from the key in case only was returned and not added.
C10_Witness ==
    /\ pc = "LocatingRule"
    /\ fetched = 2
    /\ Len(matchingForwardingRules) = 1
    /\ matchingForwardingRules[1].Description
          = Doc("object", <<Member("K8SRESOURCE", "string", ValExact)>>)
    /\ forwardingRule.Description
          = Doc("object", <<Member("k8sResource", "string", ValCase)>>)
    /\ diagnostics = <<>>

\* C11: every lookup is made in the data source's project when it sets one and
\* in the provider's otherwise; when neither sets a project, Read ends with the
\* single error "Missing project" before any lookup and without writing state.
C11_ProjectPrecedenceAndMissingProject ==
    /\ \A i \in 1..Len(calls) :
          /\ calls[i].project \notin {NULL, UNKNOWN}
          /\ data.Project # NULL => calls[i].project = data.Project
          /\ data.Project = NULL => calls[i].project = providerData.project
    /\ (providerData.project = NULL /\ data.Project = NULL /\ pc # "Start")
          => /\ pc = "Done"
             /\ diagnostics =
                   << [summary |-> <<"Missing project">>,
                       detail |-> <<"The project field must be set on either the provider or data source.">>] >>
             /\ calls = <<>>
             /\ iterState = "none"
             /\ state = NoState

\* Neither the provider nor the data source sets a project, and Read returned.
C11_Witness ==
    /\ providerData.project = NULL
    /\ data.Project = NULL
    /\ pc = "Done"
    /\ Len(diagnostics) = 1
    /\ diagnostics[1].summary = <<"Missing project">>

RECURSIVE C12_Flatten(_)
\* The sequences of a sequence, one after the other.
C12_Flatten(seqs) ==
    IF seqs = <<>> THEN <<>>
    ELSE C12_Flatten(SubSeq(seqs, 1, Len(seqs) - 1)) \o seqs[Len(seqs)]

C12_Optional(path) == IF path = NULL THEN <<>> ELSE <<path>>

\* The defaultService of the map, then that of each path matcher in order.
C12_DefaultServices(um) ==
    C12_Optional(um.DefaultService)
        \o C12_Flatten([i \in 1..Len(um.PathMatchers) |->
                            C12_Optional(um.PathMatchers[i].DefaultService)])

\* The route actions: the map's default, then for each path matcher its
\* default followed by those of its route rules.
C12_RouteActions(um) ==
    <<um.DefaultRouteAction>>
        \o C12_Flatten([i \in 1..Len(um.PathMatchers) |->
                <<um.PathMatchers[i].DefaultRouteAction>>
                    \o [j \in 1..Len(um.PathMatchers[i].RouteRules) |->
                            um.PathMatchers[i].RouteRules[j].RouteAction]])

\* The weighted paths of an action that is present and has no fault-injection
\* policy, in listed order; none for any other action.
C12_ActionPaths(action) ==
    IF action.present /\ ~action.FaultInjectionPolicy
    THEN [k \in 1..Len(action.WeightedBackendServices) |->
                action.WeightedBackendServices[k].BackendService]
    ELSE <<>>

====
